---- MODULE Spec2Model ----
(***************************************************************************)
(* Model of alliance-discord-bot/index.js: the 'event' slash command of a  *)
(* Discord bot that translates an event announcement with DeepL and posts  *)
(* it to a channel.  The file holds two builds of the bot, one after the   *)
(* other: the first (lines 1-231) has no 'language' option and a table     *)
(* without French, the second (lines 233-495) has the 'language' option.   *)
(* The variable `variant` says which build is running.                     *)
(*                                                                         *)
(* One action models one synchronous segment of the async handler: what    *)
(* runs, to completion, between the settlement of one awaited promise and  *)
(* the next await.                                                         *)
(***************************************************************************)
EXTENDS Integers, Sequences, FiniteSets, TLC

VARIABLES
    variant,      \* 1 or 2: which build of index.js is running
    env,          \* process.env: [token, key], TRUE when the secret is set
    boot,         \* position of the startup code
    loginCalled,  \* client.login has been called
    putCalled,    \* rest.put (slash-command registration) has been called
    faults,       \* number of failures the platform / provider produced so far
    pc,           \* per invocation: the await the handler is suspended at
    sub,          \* per invocation: the options and channel of the interaction
    acked,        \* per invocation: deferReply has resolved
    translations, \* per invocation: the handler's local `translations` object
    nameResult,   \* per invocation: the awaited name of the entry being built
    inflight,     \* per invocation: translateText calls issued and not returned
    calls,        \* per invocation: the translateText calls issued, in order
    sendCalls,    \* per invocation: the channel.send calls issued, in order
    delivered,    \* per invocation: a channel.send has resolved
    errors,       \* per invocation: the calls that have failed so far
    replies       \* per invocation: the editReply messages that reached the invoker

vars == <<variant, env, boot, loginCalled, putCalled, faults, pc, sub, acked,
          translations, nameResult, inflight, calls, sendCalls, delivered, errors,
          replies>>

(* ------------------------------ bounds -------------------------------- *)

\* Failures (rejected platform calls, provider errors) injected in one run.
MaxFaults == 1

\* The interactions handled concurrently.
Invocations == {"a", "b"}

(* --------------------------- JavaScript values ------------------------ *)

\* An option that was not given: getString / getChannel return null.
Null == "<null>"

\* x || y on strings and null.
OrElse(x, y) == IF x = Null \/ x = "" THEN y ELSE x

\* A string value: `text` as written in language `lang` ("" for text that was
\* never translated).
StringValue(text, lang) == [kind |-> "string", text |-> text, lang |-> lang]

\* The value of a function that returns without a return statement.
JsUndefined == [kind |-> "undefined", text |-> "", lang |-> ""]

\* ${v} in a template literal.
TemplateOfNull(v) == IF v = Null THEN "null" ELSE v

TemplateOf(v) ==
    IF v.kind = "undefined" THEN StringValue("undefined", "") ELSE v

(* ------------------------------ tables -------------------------------- *)

TIME_ZONES ==
    << [name |-> "PDT",  zone |-> "America/Los_Angeles"],
       [name |-> "EDT",  zone |-> "America/New_York"],
       [name |-> "BST",  zone |-> "Europe/London"],
       [name |-> "CEST", zone |-> "Europe/Paris"],
       [name |-> "CST",  zone |-> "Asia/Shanghai"],
       [name |-> "JST",  zone |-> "Asia/Tokyo"],
       [name |-> "AEST", zone |-> "Australia/Sydney"] >>

LANGUAGES_V1 ==
    << [code |-> "en", name |-> "English"],
       [code |-> "es", name |-> "Spanish"],
       [code |-> "zh", name |-> "Chinese"],
       [code |-> "hu", name |-> "Hungarian"],
       [code |-> "de", name |-> "German"],
       [code |-> "ja", name |-> "Japanese"] >>

LANGUAGES_V2 ==
    << [code |-> "en", name |-> "English"],
       [code |-> "es", name |-> "Espanol"],
       [code |-> "pt", name |-> "Portugues"],
       [code |-> "zh", name |-> "Zhongwen"],
       [code |-> "hu", name |-> "Magyar"],
       [code |-> "fr", name |-> "Francais"] >>

LANGUAGES(v) == IF v = 1 THEN LANGUAGES_V1 ELSE LANGUAGES_V2

\* Every key the handler's `translations` object can get.
Codes == {"en", "es", "pt", "zh", "hu", "fr", "de", "ja"}

\* The choices of the 'language' option (second build).
LanguageChoices == {"fr", "en", "pt"}

(* --------------------------- Array helpers ---------------------------- *)

\* The elements of an array.
Elements(seq) == {seq[n] : n \in 1..Len(seq)}

\* Array.prototype.filter: the elements the predicate keeps (given as the set
\* of the elements satisfying it), in order.
RECURSIVE Filter(_, _)
Filter(seq, keep) ==
    IF seq = <<>> THEN <<>>
    ELSE IF Head(seq) \in keep THEN <<Head(seq)>> \o Filter(Tail(seq), keep)
    ELSE Filter(Tail(seq), keep)

(* ---------------------------- convertTime ----------------------------- *)

\* The calendar: day of the year 2025 and weekday (0 = Sunday) of the dates
\* used as inputs.
Calendar(date) ==
    CASE date = "2025-03-01" -> [known |-> TRUE,  doy |-> 60,  dow |-> 6]
      [] date = "2025-07-01" -> [known |-> TRUE,  doy |-> 182, dow |-> 2]
      [] OTHER               -> [known |-> FALSE, doy |-> 0,   dow |-> 0]

\* The clock: minutes after midnight of the times used as inputs.
Clock(time) ==
    CASE time = "18:00" -> [known |-> TRUE,  minutes |-> 18 * 60]
      [] time = "23:30" -> [known |-> TRUE,  minutes |-> 23 * 60 + 30]
      [] OTHER          -> [known |-> FALSE, minutes |-> 0]

\* moment.utc(`${date} ${time}`): a moment, invalid when the string is not a
\* date-time.  No exception is thrown for an unparsable string.
MomentUtc(dateTime) ==
    LET d == Calendar(dateTime[1])
        t == Clock(dateTime[2])
    IN  IF d.known /\ t.known
        THEN [valid |-> TRUE, doy |-> d.doy, dow |-> d.dow, minutes |-> t.minutes]
        ELSE [valid |-> FALSE, doy |-> 0, dow |-> 0, minutes |-> 0]

\* The tz database: minutes east of UTC of a zone on a day of 2025 (daylight
\* saving time holds on 1 July in the northern zones, on 1 March in Sydney).
UtcOffset(zone, doy) ==
    LET summer == doy > 100
    IN  CASE zone = "America/Los_Angeles" -> IF summer THEN -7 * 60 ELSE -8 * 60
          [] zone = "America/New_York"    -> IF summer THEN -4 * 60 ELSE -5 * 60
          [] zone = "Europe/London"       -> IF summer THEN 60 ELSE 0
          [] zone = "Europe/Paris"        -> IF summer THEN 2 * 60 ELSE 60
          [] zone = "Asia/Shanghai"       -> 8 * 60
          [] zone = "Asia/Tokyo"          -> 9 * 60
          [] zone = "Australia/Sydney"    -> IF summer THEN 10 * 60 ELSE 11 * 60

\* utcMoment.clone().tz(zone): the same instant on the zone's wall clock.
InZone(m, zone) ==
    IF ~m.valid THEN m
    ELSE LET total == m.doy * 1440 + m.minutes + UtcOffset(zone, m.doy)
             doy   == total \div 1440
         IN  [valid |-> TRUE, doy |-> doy, dow |-> (m.dow + (doy - m.doy)) % 7,
              minutes |-> total % 1440]

WeekdayName(dow) ==
    <<"Sunday", "Monday", "Tuesday", "Wednesday", "Thursday", "Friday",
      "Saturday">>[dow + 1]

\* format("YYYY-MM-DD HH:mm"): the text "Invalid date" for an invalid moment.
FormatTime(m) ==
    IF m.valid
    THEN [text |-> "YYYY-MM-DD HH:mm", doy |-> m.doy, hour |-> m.minutes \div 60,
          minute |-> m.minutes % 60]
    ELSE [text |-> "Invalid date", doy |-> 0, hour |-> 0, minute |-> 0]

\* format("dddd").
FormatDay(m) == IF m.valid THEN WeekdayName(m.dow) ELSE "Invalid date"

convertTime(utcTime) ==
    LET utcMoment == MomentUtc(utcTime)
        ZoneEntry(tz) ==
            LET localTime == InZone(utcMoment, tz.zone)
            IN  [zone |-> tz.name, time |-> FormatTime(localTime),
                 day |-> FormatDay(localTime)]
    IN  [n \in 1..Len(TIME_ZONES) |-> ZoneEntry(TIME_ZONES[n])]

(* ------------------------- the interaction ---------------------------- *)

\* The interactions used as inputs: the options of the 'event' command
\* (Null for an option that is absent), and interaction.channel.
Submission(name, description, date, time, language, channelOption, channel) ==
    [name |-> name, description |-> description, date |-> date, time |-> time,
     language |-> language, channelOption |-> channelOption, channel |-> channel]

Submissions ==
    { Submission("Raid Night", "Bring potions", "2025-03-01", "18:00",
                 Null, Null, "general"),
      Submission("Feast", "Bring food", "2025-07-01", "23:30",
                 "en", "events", "general"),
      Submission("Muster", "Bring banners", Null, "18:00",
                 "pt", Null, "officers"),
      Submission("Parley", "Bring gifts", "2025-03-01", "soon",
                 "fr", Null, Null) }

NoSubmission == Submission("", "", Null, Null, Null, Null, Null)

\* sourceLanguage: the 'language' option or "fr" (second build); the default
\* value of translateText's sourceLang parameter (first build).
SourceLanguage(v, s) == IF v = 1 THEN "fr" ELSE OrElse(s.language, "fr")

\* LANGUAGES.find((l) => l.code === sourceLanguage)?.name || "French"
SourceLangName(v, s) ==
    LET found == Filter(LANGUAGES(v),
                        {l \in Elements(LANGUAGES(v)) : l.code = SourceLanguage(v, s)})
    IN  IF v = 1 \/ found = <<>> THEN "French" ELSE found[1].name

\* interaction.options.getChannel("channel") || interaction.channel
ResolveChannelIgnoringOption(s) == s.channel

ResolveChannel(s) == OrElse(s.channelOption, s.channel)

\* `${eventDate} ${eventTime}`
UtcDateTime(s) == <<TemplateOfNull(s.date), TemplateOfNull(s.time)>>

(* -------------------------- translation loop -------------------------- *)

\* The languages the loop translates to: every entry of LANGUAGES (first
\* build), every entry but the source language's (second build).
TargetsUnfiltered(v, s) == LANGUAGES(v)

Targets(v, s) ==
    IF v = 1 THEN LANGUAGES(v)
    ELSE Filter(LANGUAGES(v),
                {lang \in Elements(LANGUAGES(v)) : lang.code # SourceLanguage(v, s)})

\* A translateText call.
Call(text, targetLang, sourceLang) ==
    [text |-> text, targetLang |-> targetLang, sourceLang |-> sourceLang]

\* The two calls of one pass of the loop: the object literal evaluates
\* `name:` before `description:`.
LanguageCallsSwapped(v, s, lang) ==
    << Call(s.description, lang.code, SourceLanguage(v, s)),
       Call(s.name, lang.code, SourceLanguage(v, s)) >>

LanguageCalls(v, s, lang) ==
    << Call(s.name, lang.code, SourceLanguage(v, s)),
       Call(s.description, lang.code, SourceLanguage(v, s)) >>

\* The calls of the whole loop, in the order the loop issues them.
RECURSIVE LoopCalls(_, _, _)
LoopCalls(v, s, langs) ==
    IF langs = <<>> THEN <<>>
    ELSE LanguageCalls(v, s, Head(langs)) \o LoopCalls(v, s, Tail(langs))

Plan(v, s) == LoopCalls(v, s, Targets(v, s))

\* deeplResponse.data.translations[0].text: the text in the target language.
Translated(call) == StringValue(call.text, call.targetLang)

\* An entry of `translations`; `present` is FALSE for a key never assigned.
NoEntry == [present |-> FALSE, name |-> JsUndefined, description |-> JsUndefined]

Entry(name, description) ==
    [present |-> TRUE, name |-> name, description |-> description]

\* translations[code] = entry, on the invocation's own object.
StoreShared(tr, i, code, entry) ==
    [j \in DOMAIN tr |-> [tr[j] EXCEPT ![code] = entry]]

Store(tr, i, code, entry) == [tr EXCEPT ![i][code] = entry]

\* translations[sourceLanguage] = { name: eventName, description: eventDesc }
\* (second build only).
WithoutOriginal(v, s, t) == t

WithOriginal(v, s, t) ==
    IF v = 1 THEN t
    ELSE [t EXCEPT ![SourceLanguage(v, s)] =
              Entry(StringValue(s.name, ""), StringValue(s.description, ""))]

(* ------------------------------ the embed ----------------------------- *)

\* The languages listed in the two translation fields: all of LANGUAGES
\* (first build), those with an entry in `translations` (second build).
Listed(v, t) ==
    IF v = 1 THEN LANGUAGES(v)
    ELSE Filter(LANGUAGES(v),
                {lang \in Elements(LANGUAGES(v)) : t[lang.code].present})

\* One line of namesField / descriptionsField: `**${lang.name}**: ${value}`.
Line(lang, value) ==
    [language |-> lang.name, code |-> lang.code, text |-> TemplateOf(value)]

NamesField(v, t) ==
    [n \in 1..Len(Listed(v, t)) |->
        Line(Listed(v, t)[n], t[Listed(v, t)[n].code].name)]

DescriptionsField(v, t) ==
    [n \in 1..Len(Listed(v, t)) |->
        Line(Listed(v, t)[n], t[Listed(v, t)[n].code].description)]

BuildEmbed(v, s, t) ==
    [title        |-> StringValue(s.name, ""),
     original     |-> [language |-> SourceLangName(v, s),
                       text |-> StringValue(s.description, "")],
     utc          |-> UtcDateTime(s),
     zones        |-> convertTime(UtcDateTime(s)),
     names        |-> NamesField(v, t),
     descriptions |-> DescriptionsField(v, t)]

(* ------------------------------- startup ------------------------------ *)

Init ==
    /\ variant \in {1, 2}
    /\ env \in [token : BOOLEAN, key : BOOLEAN]
    /\ boot = "start"
    /\ loginCalled = FALSE
    /\ putCalled = FALSE
    /\ faults = 0
    /\ pc = [i \in Invocations |-> "idle"]
    /\ sub = [i \in Invocations |-> NoSubmission]
    /\ acked = [i \in Invocations |-> FALSE]
    /\ translations = [i \in Invocations |-> [c \in Codes |-> NoEntry]]
    /\ nameResult = [i \in Invocations |-> JsUndefined]
    /\ inflight = [i \in Invocations |-> {}]
    /\ calls = [i \in Invocations |-> <<>>]
    /\ sendCalls = [i \in Invocations |-> <<>>]
    /\ delivered = [i \in Invocations |-> FALSE]
    /\ errors = [i \in Invocations |-> {}]
    /\ replies = [i \in Invocations |-> <<>>]

handlerVars == <<pc, sub, acked, translations, nameResult, inflight, calls,
                 sendCalls, delivered, errors, replies>>

\* The last statement of the module: client.login(process.env.DISCORD_TOKEN),
\* whatever the environment holds.
Login ==
    /\ boot = "start"
    /\ loginCalled' = TRUE
    /\ boot' = "login"
    /\ UNCHANGED <<variant, env, putCalled, faults, handlerVars>>

\* The gateway accepts the token: 'ready' fires and its handler calls
\* rest.put with the command definitions.
Ready ==
    /\ boot = "login"
    /\ env.token
    /\ putCalled' = TRUE
    /\ boot' = "registering"
    /\ UNCHANGED <<variant, env, loginCalled, faults, handlerVars>>

\* client.login rejects for want of a token; nothing handles the rejection.
LoginRejected ==
    /\ boot = "login"
    /\ ~env.token
    /\ boot' = "loginFailed"
    /\ UNCHANGED <<variant, env, loginCalled, putCalled, faults, handlerVars>>

\* rest.put settles; the handler logs the outcome either way.
PutSettled ==
    /\ boot = "registering"
    /\ boot' = "listening"
    /\ UNCHANGED <<variant, env, loginCalled, putCalled, faults, handlerVars>>

(* ------------------------ interactionCreate --------------------------- *)

\* The client receives interactions once it has logged in.  The handlers
\* and the 'ready' handler share no variable, so the settlement of rest.put
\* commutes with every step of a handler: it is taken first.
LoggedIn == boot = "listening"

\* Interactions are named in their order of arrival.
Arrived(i) == i = "a" \/ pc["a"] # "idle"

startupVars == <<variant, env, boot, loginCalled, putCalled>>

\* A failure of the platform or the provider, within the budget.
Fault ==
    /\ faults < MaxFaults
    /\ faults' = faults + 1

\* An interaction that is no command, or another command: the handler returns.
ReceiveOther(i) ==
    /\ LoggedIn
    /\ Arrived(i)
    /\ pc[i] = "idle"
    /\ pc' = [pc EXCEPT ![i] = "ignored"]
    /\ UNCHANGED <<startupVars, faults, sub, acked, translations, nameResult,
                   inflight, calls, sendCalls, delivered, replies,
                   errors>>

\* An 'event' command arrives: the handler calls deferReply and awaits it.
Receive(i, s) ==
    /\ LoggedIn
    /\ Arrived(i)
    /\ pc[i] = "idle"
    /\ sub' = [sub EXCEPT ![i] = s]
    /\ pc' = [pc EXCEPT ![i] = "defer"]
    /\ UNCHANGED <<startupVars, faults, acked, translations, nameResult,
                   inflight, calls, sendCalls, delivered, replies,
                   errors>>

\* The end of the try block, once the loop is over: the original text is put
\* in `translations` (second build), the embed is built and channel.send is
\* called; it throws a TypeError, caught by the handler, when there is no
\* channel.
SendEmbed(i, tr, errs) ==
    LET s     == sub[i]
        whole == [tr EXCEPT ![i] = WithOriginal(variant, s, tr[i])]
    IN  /\ translations' = whole
        /\ IF ResolveChannel(s) = Null
           THEN /\ pc' = [pc EXCEPT ![i] = "replyFailure"]
                /\ errors' = [errors EXCEPT ![i] = errs \cup {"send"}]
                /\ UNCHANGED sendCalls
           ELSE /\ pc' = [pc EXCEPT ![i] = "send"]
                /\ errors' = [errors EXCEPT ![i] = errs]
                /\ sendCalls' = [sendCalls EXCEPT ![i] =
                       Append(@, [channel |-> ResolveChannel(s),
                                  embed |-> BuildEmbed(variant, s, whole[i])])]

\* translateText is called with the n-th call of the loop and awaited.
Issue(i, n, returned) ==
    LET call == Plan(variant, sub[i])[n]
    IN  /\ calls' = [calls EXCEPT ![i] = Append(@, call)]
        /\ inflight' = [inflight EXCEPT ![i] = (@ \ returned) \cup {call}]
        /\ pc' = [pc EXCEPT ![i] = "translate"]

\* translateText returns `result` for the call in flight: the loop goes on to
\* its next call, or ends.
Resume(i, result, errs) ==
    LET n    == Len(calls[i])
        call == calls[i][n]
        done == Store(translations, i, call.targetLang,
                      Entry(nameResult[i], result))
    IN  /\ call \in inflight[i]
        /\ IF n % 2 = 1
           THEN /\ nameResult' = [nameResult EXCEPT ![i] = result]
                /\ Issue(i, n + 1, {call})
                /\ errors' = [errors EXCEPT ![i] = errs]
                /\ UNCHANGED <<translations, sendCalls>>
           ELSE /\ UNCHANGED nameResult
                /\ IF n < Len(Plan(variant, sub[i]))
                   THEN /\ translations' = done
                        /\ Issue(i, n + 1, {call})
                        /\ errors' = [errors EXCEPT ![i] = errs]
                        /\ UNCHANGED sendCalls
                   ELSE /\ inflight' = [inflight EXCEPT ![i] = @ \ {call}]
                        /\ UNCHANGED calls
                        /\ SendEmbed(i, done, errs)

\* deferReply resolves: the options are read, the times converted and the
\* loop issues its first call.
DeferResolved(i) ==
    /\ pc[i] = "defer"
    /\ acked' = [acked EXCEPT ![i] = TRUE]
    /\ IF Plan(variant, sub[i]) = <<>>
       THEN /\ SendEmbed(i, translations, errors[i])
            /\ UNCHANGED <<calls, inflight>>
       ELSE /\ Issue(i, 1, {})
            /\ UNCHANGED <<translations, sendCalls, errors>>
    /\ UNCHANGED <<startupVars, faults, sub, nameResult, delivered, replies>>

\* deferReply rejects: the await is outside the try block, so the handler's
\* promise rejects and nothing handles it.
DeferRejected(i) ==
    /\ pc[i] = "defer"
    /\ Fault
    /\ errors' = [errors EXCEPT ![i] = @ \cup {"deferReply"}]
    /\ pc' = [pc EXCEPT ![i] = "escaped"]
    /\ UNCHANGED <<startupVars, sub, acked, translations, nameResult, inflight,
                   calls, sendCalls, delivered, replies>>

\* The provider answers the call in flight with a translation.  Without a
\* key the provider refuses every request.
TranslateOk(i) ==
    /\ pc[i] = "translate"
    /\ env.key
    /\ Resume(i, Translated(calls[i][Len(calls[i])]), errors[i])
    /\ UNCHANGED <<startupVars, faults, sub, acked, delivered, replies>>

\* The provider answers with an error status (always, without a key):
\* translateText's catch block logs error.response.data and falls off the
\* end of the function, so the call returns undefined.
TranslateHttpError(i) ==
    /\ pc[i] = "translate"
    /\ IF env.key THEN Fault ELSE UNCHANGED faults
    /\ Resume(i, JsUndefined, errors[i] \cup {"translateStatus"})
    /\ UNCHANGED <<startupVars, sub, acked, delivered, replies>>

\* The request fails with no response (network error), or the response has
\* no translations: in the catch block error.response is undefined, reading
\* its .data throws, translateText rejects and the handler's catch block
\* calls editReply with the failure message.
TranslateNoResponse(i) ==
    /\ pc[i] = "translate"
    /\ Fault
    /\ errors' = [errors EXCEPT ![i] = @ \cup {"translateNoResponse"}]
    /\ inflight' = [inflight EXCEPT ![i] = {}]
    /\ pc' = [pc EXCEPT ![i] = "replyFailure"]
    /\ UNCHANGED <<startupVars, sub, acked, translations, nameResult, calls,
                   sendCalls, delivered, replies>>

\* channel.send resolves: editReply is called with the success message.
SendResolved(i) ==
    /\ pc[i] = "send"
    /\ delivered' = [delivered EXCEPT ![i] = TRUE]
    /\ pc' = [pc EXCEPT ![i] = "replySuccess"]
    /\ UNCHANGED <<startupVars, faults, sub, acked, translations, nameResult,
                   inflight, calls, sendCalls, replies,
                   errors>>

\* channel.send rejects: the catch block calls editReply with the failure
\* message.
SendRejected(i) ==
    /\ pc[i] = "send"
    /\ Fault
    /\ errors' = [errors EXCEPT ![i] = @ \cup {"send"}]
    /\ pc' = [pc EXCEPT ![i] = "replyFailure"]
    /\ UNCHANGED <<startupVars, sub, acked, translations, nameResult, inflight,
                   calls, sendCalls, delivered, replies>>

\* The success editReply resolves: the handler is done.
SuccessReplied(i) ==
    /\ pc[i] = "replySuccess"
    /\ replies' = [replies EXCEPT ![i] = Append(@, "success")]
    /\ pc' = [pc EXCEPT ![i] = "done"]
    /\ UNCHANGED <<startupVars, faults, sub, acked, translations, nameResult,
                   inflight, calls, sendCalls, delivered,
                   errors>>

\* The success editReply rejects inside the try block: the catch block calls
\* editReply with the failure message.
SuccessReplyRejected(i) ==
    /\ pc[i] = "replySuccess"
    /\ Fault
    /\ errors' = [errors EXCEPT ![i] = @ \cup {"editReply"}]
    /\ pc' = [pc EXCEPT ![i] = "replyFailure"]
    /\ UNCHANGED <<startupVars, sub, acked, translations, nameResult, inflight,
                   calls, sendCalls, delivered, replies>>

\* The failure editReply resolves: the handler is done.
FailureReplied(i) ==
    /\ pc[i] = "replyFailure"
    /\ replies' = [replies EXCEPT ![i] = Append(@, "failure")]
    /\ pc' = [pc EXCEPT ![i] = "done"]
    /\ UNCHANGED <<startupVars, faults, sub, acked, translations, nameResult,
                   inflight, calls, sendCalls, delivered,
                   errors>>

\* The failure editReply rejects inside the catch block: the handler's
\* promise rejects and nothing handles it.
FailureReplyRejected(i) ==
    /\ pc[i] = "replyFailure"
    /\ Fault
    /\ errors' = [errors EXCEPT ![i] = @ \cup {"editReply"}]
    /\ pc' = [pc EXCEPT ![i] = "escaped"]
    /\ UNCHANGED <<startupVars, sub, acked, translations, nameResult, inflight,
                   calls, sendCalls, delivered, replies>>

Next ==
    \/ Login
    \/ Ready
    \/ LoginRejected
    \/ PutSettled
    \/ \E i \in Invocations : ReceiveOther(i)
    \/ \E i \in Invocations, s \in Submissions : Receive(i, s)
    \/ \E i \in Invocations : DeferResolved(i)
    \/ \E i \in Invocations : DeferRejected(i)
    \/ \E i \in Invocations : TranslateOk(i)
    \/ \E i \in Invocations : TranslateHttpError(i)
    \/ \E i \in Invocations : TranslateNoResponse(i)
    \/ \E i \in Invocations : SendResolved(i)
    \/ \E i \in Invocations : SendRejected(i)
    \/ \E i \in Invocations : SuccessReplied(i)
    \/ \E i \in Invocations : SuccessReplyRejected(i)
    \/ \E i \in Invocations : FailureReplied(i)
    \/ \E i \in Invocations : FailureReplyRejected(i)

Spec == Init /\ [][Next]_vars

(* ----------------------------- properties ----------------------------- *)

\* What the invocations that have called channel.send sent.
Sent(i) == sendCalls[i] # <<>>

Announcement(i) == sendCalls[i][1].embed

UndefinedText == StringValue("undefined", "")

TranslateErrors == {"translateStatus", "translateNoResponse"}

Ended(i) == pc[i] \in {"replyFailure", "done", "escaped"}

\* The table's codes other than the source language's, in table order.
OtherLanguages(i) ==
    SelectSeq(LANGUAGES(variant),
              LAMBDA l : l.code # SourceLanguage(variant, sub[i]))

LinesOf(i, code) ==
    <<SelectSeq(Announcement(i).names, LAMBDA line : line.code = code),
      SelectSeq(Announcement(i).descriptions, LAMBDA line : line.code = code)>>

\* C1 (as claimed): when a translateText call of an invocation fails, the
\* announcement is still sent, and its names and descriptions fields never
\* hold the text "undefined".
C1_FailedTranslationLeavesNoUndefined ==
    \A i \in Invocations :
        (errors[i] # {} /\ errors[i] \subseteq TranslateErrors) =>
            /\ Ended(i) => Sent(i)
            /\ Sent(i) =>
                   \A line \in Elements(Announcement(i).names)
                               \cup Elements(Announcement(i).descriptions) :
                       line.text # UndefinedText

\* C2 (as claimed): the sent announcement has an entry for the source
\* language in its names and descriptions fields, carrying the original
\* name and description, and no translateText call targets that language.
C2_SourceEntryIsListedVerbatim ==
    \A i \in Invocations :
        LET source == SourceLanguage(variant, sub[i])
        IN  /\ \A n \in DOMAIN calls[i] : calls[i][n].targetLang # source
            /\ Sent(i) =>
                   /\ Len(LinesOf(i, source)[1]) = 1
                   /\ LinesOf(i, source)[1][1].text = StringValue(sub[i].name, "")
                   /\ Len(LinesOf(i, source)[2]) = 1
                   /\ LinesOf(i, source)[2][1].text =
                          StringValue(sub[i].description, "")

\* C2 (amended): the sent announcement carries the original name in its
\* title and the original description in its 'Original' line; in the build
\* with the 'language' option the names and descriptions fields have exactly
\* one entry for the source language, carrying the original name and
\* description, and in the first build (French source, no French in the
\* table) they have none; no translateText call targets the source language.
C2_OriginalTextIsVerbatim ==
    \A i \in Invocations :
        LET source == SourceLanguage(variant, sub[i])
        IN  /\ \A n \in DOMAIN calls[i] : calls[i][n].targetLang # source
            /\ Sent(i) =>
                   /\ Announcement(i).title = StringValue(sub[i].name, "")
                   /\ Announcement(i).original.text =
                          StringValue(sub[i].description, "")
                   /\ variant = 1 =>
                          LinesOf(i, source) = <<(<<>>), (<<>>)>>
                   /\ variant = 2 =>
                          /\ Len(LinesOf(i, source)[1]) = 1
                          /\ LinesOf(i, source)[1][1].text =
                                 StringValue(sub[i].name, "")
                          /\ Len(LinesOf(i, source)[2]) = 1
                          /\ LinesOf(i, source)[2][1].text =
                                 StringValue(sub[i].description, "")

C2_Witness ==
    \E i \in Invocations :
        /\ variant = 2
        /\ delivered[i]
        /\ sub[i].language = "en"
        /\ Len(calls[i]) > 0

\* C3 (as claimed): an invocation that sent its announcement made as many
\* translateText calls as LANGUAGES has entries, minus one.
C3_CallsAreLanguagesMinusOne ==
    \A i \in Invocations :
        Sent(i) => Len(calls[i]) = Len(LANGUAGES(variant)) - 1

\* C3 (amended): an invocation that sent its announcement made two
\* translateText calls (name, description) for each entry of LANGUAGES other
\* than the source language: 2 x (entries - 1) in the build with the
\* 'language' option, 2 x entries in the first build, whose table has no
\* entry for its source language.
C3_TwoCallsPerOtherLanguage ==
    \A i \in Invocations :
        Sent(i) =>
            /\ Len(calls[i]) = 2 * Len(OtherLanguages(i))
            /\ variant = 2 => Len(calls[i]) = 2 * (Len(LANGUAGES(variant)) - 1)
            /\ variant = 1 => Len(calls[i]) = 2 * Len(LANGUAGES(variant))

C3_Witness ==
    \E i \in Invocations :
        /\ variant = 2
        /\ pc[i] = "done"
        /\ replies[i] = <<"success">>
        /\ Len(calls[i]) = 10

\* C4 (as claimed): an invocation whose date is missing, or whose date and
\* time do not parse, never calls channel.send and ends with the failure
\* message.
Malformed(s) ==
    s.date = Null \/ s.time = Null \/ ~MomentUtc(UtcDateTime(s)).valid

C4_MalformedInputSendsNothing ==
    \A i \in Invocations :
        (pc[i] \notin {"idle", "ignored"} /\ Malformed(sub[i])) =>
            /\ sendCalls[i] = <<>>
            /\ pc[i] = "done" => replies[i] = <<"failure">>

\* C5 (as claimed): no error escapes the handler, and an invocation in which
\* a call failed ends with exactly one message, the failure message.
C5_EveryErrorBecomesOneFailureReply ==
    \A i \in Invocations :
        /\ pc[i] # "escaped"
        /\ (pc[i] = "done" /\ errors[i] # {}) => replies[i] = <<"failure">>

\* C6: deferReply has resolved before any translateText call and before
\* channel.send; channel.send is called at most once, on the 'channel' option
\* when given and on the interaction's channel otherwise; the success reply
\* is sent only after channel.send has resolved.
C6_HandlerStepsInOrder ==
    \A i \in Invocations :
        /\ (calls[i] # <<>> \/ sendCalls[i] # <<>>) => acked[i]
        /\ Len(sendCalls[i]) <= 1
        /\ \A n \in DOMAIN sendCalls[i] :
               sendCalls[i][n].channel =
                   IF sub[i].channelOption # Null THEN sub[i].channelOption
                   ELSE sub[i].channel
        /\ (pc[i] = "replySuccess" \/ "success" \in Elements(replies[i])) =>
               /\ delivered[i]
               /\ Sent(i)
        /\ delivered[i] => inflight[i] = {}

C6_Witness ==
    \E i \in Invocations :
        /\ pc[i] = "done"
        /\ replies[i] = <<"success">>
        /\ sub[i].channelOption = "events"
        /\ sendCalls[i][1].channel = "events"

\* C7 (as claimed): with either secret missing from the environment, neither
\* client.login nor the command registration is ever called.
C7_MissingSecretStopsStartup ==
    (~env.token \/ ~env.key) => (~loginCalled /\ ~putCalled)

\* C8: under any interleaving of the invocations, the announcement an
\* invocation sends holds only that invocation's name, description, date,
\* time, source language, translations and channel: what it would hold had
\* the invocation run alone with the same answers of the provider.
OwnLine(i, line, original, listed) ==
    /\ line.code \in listed
    /\ line.text \in
           IF line.code = SourceLanguage(variant, sub[i])
           THEN {StringValue(original, "")}
           ELSE {StringValue(original, line.code), UndefinedText}

C8_AnnouncementIsTheInvocationsOwn ==
    \A i \in Invocations :
        Sent(i) =>
            LET s      == sub[i]
                e      == Announcement(i)
                listed == {l.code : l \in Elements(OtherLanguages(i))}
                              \cup (IF variant = 2
                                    THEN {SourceLanguage(variant, s)} ELSE {})
            IN  /\ e.title = StringValue(s.name, "")
                /\ e.original.text = StringValue(s.description, "")
                /\ e.original.language = SourceLangName(variant, s)
                /\ e.utc = <<TemplateOfNull(s.date), TemplateOfNull(s.time)>>
                /\ e.zones = convertTime(e.utc)
                /\ sendCalls[i][1].channel \in {s.channelOption, s.channel} \ {Null}
                /\ Len(e.names) = Cardinality(listed)
                /\ Len(e.descriptions) = Cardinality(listed)
                /\ \A line \in Elements(e.names) :
                       OwnLine(i, line, s.name, listed)
                /\ \A line \in Elements(e.descriptions) :
                       OwnLine(i, line, s.description, listed)

C8_Witness ==
    /\ variant = 2
    /\ pc["a"] = "translate"
    /\ Len(calls["a"]) > 2
    /\ calls["a"][1].targetLang = "en"
    /\ translations["a"]["en"].present
    /\ sub["b"].language = "en"
    /\ sub["a"] # sub["b"]
    /\ pc["b"] = "send"
    /\ Sent("b")

\* C9: an invocation has at most one translateText call in flight, the one
\* it issued last; its calls follow the LANGUAGES table, the source language
\* skipped, the name before the description for each language.
C9_CallsAreSequentialInTableOrder ==
    \A i \in Invocations :
        LET others == OtherLanguages(i)
        IN  /\ Cardinality(inflight[i]) <= 1
            /\ inflight[i] # {} => inflight[i] = {calls[i][Len(calls[i])]}
            /\ Len(calls[i]) <= 2 * Len(others)
            /\ \A n \in DOMAIN calls[i] :
                   /\ calls[i][n].targetLang = others[(n + 1) \div 2].code
                   /\ calls[i][n].text =
                          IF n % 2 = 1 THEN sub[i].name ELSE sub[i].description
                   /\ calls[i][n].sourceLang = SourceLanguage(variant, sub[i])

C9_Witness ==
    \E i \in Invocations :
        /\ variant = 2
        /\ pc[i] = "translate"
        /\ sub[i].language = "pt"
        /\ Len(calls[i]) = 10
        /\ Cardinality(inflight[i]) = 1

\* C10 (as claimed): the failure message reaches the invoker only when no
\* announcement was delivered.
C10_FailureReplyOnlyIfNothingDelivered ==
    \A i \in Invocations :
        "failure" \in Elements(replies[i]) => ~delivered[i]

====
